---- MODULE Spec2Model ----
(***************************************************************************)
(* Model of src/videos.py: the command entry point and solve_videos, which *)
(* reads a whitespace-tokenised instance, builds a 0/1 program (Y and X    *)
(* variables, objective, capacity / consistency / single-service           *)
(* constraints), hands it to the external MILP solver and writes the       *)
(* placement to videos.out.                                                *)
(*                                                                         *)
(* Python lists are 0-indexed; the sequences below are 1-indexed, so       *)
(* video_sizes[v] of the source is video_sizes[v + 1] here.  A dict is a   *)
(* sequence of entries in insertion order with unique keys.                *)
(***************************************************************************)
EXTENDS Integers, Sequences, FiniteSets, TLC

(***************************************************************************)
(* Bounds of the explored instances.                                       *)
(***************************************************************************)
MaxV == 2
MaxC == 2
MaxR == 2
MaxK == 2
MaxSize == 2
MaxCap == 2
MaxLat == 2
MaxCount == 2
MaxE == 1
MaxItems == 3

(* MIPGap = 0.005 as a fraction MIPGapNum / MIPGapDen. *)
MIPGapNum == 5
MIPGapDen == 1000

VARIABLES
    pc,               \* position in the program
    argc,             \* len(sys.argv)
    fileFound,        \* whether open(input_path) succeeds
    content,          \* f.read().split(), as integers
    data,             \* V, E, R, C, X, video_sizes, endpoints, requests
    requested_videos, \* iteration order of the set of requested videos
    y,                \* keys of the dict y, in insertion order
    x,                \* keys of the dict x, in insertion order
    obj_terms,        \* the list obj_terms
    constrs,          \* constraints added to the model
    mps,              \* whether videos.mps was written
    status,           \* m.status after optimize()
    sol,              \* the solver's assignment (variables at 1), or NoSol
    out,              \* lines of videos.out, or NoFile
    printed,          \* messages printed, in order
    exitCode          \* process exit status, once pc = "done"

vars == <<pc, argc, fileFound, content, data, requested_videos, y, x,
          obj_terms, constrs, mps, status, sol, out, printed, exitCode>>

NoFile == <<"nofile">>
NoSol == [none |-> TRUE]
NoData == [parsed |-> FALSE]
NoConstrs == [cap |-> <<>>, cons |-> <<>>, uniq |-> <<>>]

----------------------------------------------------------------------------
(* Generic helpers. *)

Range(s) == {s[i] : i \in 1..Len(s)}

RECURSIVE SumSeq(_)
SumSeq(s) == IF s = <<>> THEN 0 ELSE Head(s) + SumSeq(Tail(s))

RECURSIVE FlatSeq(_)
FlatSeq(ss) == IF ss = <<>> THEN <<>> ELSE Head(ss) \o FlatSeq(Tail(ss))

SeqsUpTo(S, n) == UNION {[1..k -> S] : k \in 0..n}

Orderings(S) == {s \in [1..Cardinality(S) -> S] : Range(s) = S}

----------------------------------------------------------------------------
(* The instance files explored: every well-formed token stream within the  *)
(* bounds (at most MaxItems connection and request records in all), three  *)
(* fixed instances (the worked example of the documentation, one with a    *)
(* negative capacity, one with two endpoints), and the proper prefixes     *)
(* (truncated files) of one stream per shape and of the fixed instances.   *)
(* Requests name existing videos and endpoints.  Cache ids of connections  *)
(* range over 0..MaxC-1 and are not checked against the declared C by the  *)
(* program, so a file may name a cache id >= C.                            *)

ConnPairs == {<<c, l>> : c \in 0..(MaxC - 1), l \in 1..MaxLat}

EndpointRecs == [ld : 1..MaxLat, conns : SeqsUpTo(ConnPairs, MaxK)]

RequestRecs(V, E) ==
    [v : 0..(V - 1), e : 0..(E - 1), n : 1..MaxCount]

Items(i) == SumSeq([e \in 1..i.E |-> Len(i.eps[e].conns)]) + Len(i.reqs)

Instances ==
    UNION { UNION {
       {i \in [V : {V}, E : {E}, C : 1..MaxC, X : 1..MaxCap,
               sizes : [1..V -> 1..MaxSize],
               eps : [1..E -> EndpointRecs],
               reqs : SeqsUpTo(RequestRecs(V, E), MaxR)]
          : Items(i) <= MaxItems}
      : E \in 1..MaxE } : V \in 1..MaxV }

ExampleInstance ==
    [V |-> 1, E |-> 1, C |-> 1, X |-> 10, sizes |-> <<5>>,
     eps |-> <<[ld |-> 100, conns |-> <<<<0, 20>>>>]>>,
     reqs |-> <<[v |-> 0, e |-> 0, n |-> 3]>>]

NegativeCapacityInstance ==
    [V |-> 1, E |-> 1, C |-> 1, X |-> -1, sizes |-> <<1>>,
     eps |-> <<[ld |-> 2, conns |-> <<<<0, 1>>>>]>>,
     reqs |-> <<[v |-> 0, e |-> 0, n |-> 1]>>]

TwoEndpointInstance ==
    [V |-> 2, E |-> 2, C |-> 2, X |-> 2, sizes |-> <<1, 2>>,
     eps |-> <<[ld |-> 3, conns |-> <<<<0, 1>>, <<1, 3>>>>],
               [ld |-> 2, conns |-> <<<<1, 1>>>>]>>,
     reqs |-> <<[v |-> 0, e |-> 1, n |-> 2], [v |-> 1, e |-> 0, n |-> 1]>>]

FixedInstances ==
    {ExampleInstance, NegativeCapacityInstance, TwoEndpointInstance}

(* one instance per shape (V, E, connection counts, R). *)
ShapeInstances ==
    {i \in Instances :
        /\ i.C = 1 /\ i.X = 1
        /\ \A j \in 1..i.V : i.sizes[j] = 1
        /\ \A e \in 1..i.E :
              /\ i.eps[e].ld = 1
              /\ \A j \in 1..Len(i.eps[e].conns) :
                    i.eps[e].conns[j] = <<0, 1>>
        /\ \A j \in 1..Len(i.reqs) :
              i.reqs[j] = [v |-> 0, e |-> 0, n |-> 1]}

RECURSIVE ConnTokens(_)
ConnTokens(cs) ==
    IF cs = <<>> THEN <<>> ELSE Head(cs) \o ConnTokens(Tail(cs))

RECURSIVE EndpointTokens(_)
EndpointTokens(es) ==
    IF es = <<>> THEN <<>>
    ELSE <<Head(es).ld, Len(Head(es).conns)>> \o ConnTokens(Head(es).conns)
         \o EndpointTokens(Tail(es))

RECURSIVE RequestTokens(_)
RequestTokens(rs) ==
    IF rs = <<>> THEN <<>>
    ELSE <<Head(rs).v, Head(rs).e, Head(rs).n>> \o RequestTokens(Tail(rs))

Tokens(i) ==
    <<i.V, i.E, Len(i.reqs), i.C, i.X>> \o i.sizes
    \o EndpointTokens(i.eps) \o RequestTokens(i.reqs)

FullStreams == {Tokens(i) : i \in Instances \cup FixedInstances}

TruncatedStreams ==
    UNION {{SubSeq(Tokens(i), 1, n) : n \in 0..(Len(Tokens(i)) - 1)}
             : i \in ShapeInstances \cup FixedInstances}

----------------------------------------------------------------------------
(* The parser, lines 15-45: tokens are consumed in order through one       *)
(* iterator; next() on an exhausted iterator raises StopIteration.         *)

ParseFail == [ok |-> FALSE]

(* connections[c_id] = lc on a dict: overwrite in place or append. *)
DictSet(conns, c, l) ==
    IF \E j \in 1..Len(conns) : conns[j][1] = c
    THEN [j \in 1..Len(conns) |->
            IF conns[j][1] = c THEN <<c, l>> ELSE conns[j]]
    ELSE Append(conns, <<c, l>>)

(* ReadConns that stops quietly when the tokens run out. *)
RECURSIVE ReadConnsLenient(_, _, _, _)
ReadConnsLenient(toks, pos, k, conns) ==
    IF k <= 0 \/ pos + 1 > Len(toks)
    THEN [ok |-> TRUE, pos |-> pos, conns |-> conns]
    ELSE ReadConnsLenient(toks, pos + 2, k - 1,
                          DictSet(conns, toks[pos], toks[pos + 1]))

(* lines 30-33: k pairs (c_id, lc) read from position pos. *)
RECURSIVE ReadConns(_, _, _, _)
ReadConns(toks, pos, k, conns) ==
    IF k <= 0 THEN [ok |-> TRUE, pos |-> pos, conns |-> conns]
    ELSE IF pos + 1 > Len(toks) THEN ParseFail
    ELSE ReadConns(toks, pos + 2, k - 1,
                   DictSet(conns, toks[pos], toks[pos + 1]))

(* lines 25-34: E endpoints read from position pos. *)
RECURSIVE ReadEndpoints(_, _, _, _)
ReadEndpoints(toks, pos, e, eps) ==
    IF e <= 0 THEN [ok |-> TRUE, pos |-> pos, eps |-> eps]
    ELSE IF pos + 1 > Len(toks) THEN ParseFail
    ELSE LET cs == ReadConns(toks, pos + 2, toks[pos + 1], <<>>)
         IN  IF ~cs.ok THEN ParseFail
             ELSE ReadEndpoints(toks, cs.pos, e - 1,
                     Append(eps, [ld |-> toks[pos], conns |-> cs.conns]))

(* lines 36-41: R requests read from position pos; id is the ordinal. *)
RECURSIVE ReadRequests(_, _, _, _)
ReadRequests(toks, pos, r, reqs) ==
    IF r <= 0 THEN [ok |-> TRUE, pos |-> pos, reqs |-> reqs]
    ELSE IF pos + 2 > Len(toks) THEN ParseFail
    ELSE ReadRequests(toks, pos + 3, r - 1,
            Append(reqs, [id |-> Len(reqs), v |-> toks[pos],
                          e |-> toks[pos + 1], n |-> toks[pos + 2]]))

(* lines 16-45 as a whole. *)
Parse(toks) ==
    IF Len(toks) < 5 THEN ParseFail
    ELSE LET V == toks[1]
             E == toks[2]
             R == toks[3]
             C == toks[4]
             X == toks[5]
             nv == IF V > 0 THEN V ELSE 0
         IN  IF Len(toks) < 5 + nv THEN ParseFail
             ELSE LET eps == ReadEndpoints(toks, 6 + nv, E, <<>>)
                  IN  IF ~eps.ok THEN ParseFail
                      ELSE LET rs == ReadRequests(toks, eps.pos, R, <<>>)
                           IN  IF ~rs.ok THEN ParseFail
                               ELSE [ok |-> TRUE, parsed |-> TRUE,
                                     V |-> V, E |-> E, R |-> R,
                                     C |-> C, X |-> X,
                                     video_sizes |-> SubSeq(toks, 6, 5 + nv),
                                     endpoints |-> eps.eps,
                                     requests |-> rs.reqs]

----------------------------------------------------------------------------
(* Model construction, lines 57-110, as functions of the parsed data d and *)
(* of rv, the order in which the set requested_videos iterates.            *)

RequestedSet(d) == {d.requests[i].v : i \in 1..Len(d.requests)}

Fits(d, v) == d.video_sizes[v + 1] <= d.X

(* YRow without the size filter of line 64. *)
YRowNoSizeFilter(d, rv, c) == [i \in 1..Len(rv) |-> <<c, rv[i]>>]

(* lines 63-65 for one cache c. *)
YRow(d, rv, c) ==
    LET f == SelectSeq(rv, LAMBDA v : Fits(d, v))
    IN  [i \in 1..Len(f) |-> <<c, f[i]>>]

(* lines 61-65. *)
YKeys(d, rv) == FlatSeq([c \in 1..d.C |-> YRow(d, rv, c - 1)])

(* Serves with lc <= ld in place of lc < ld. *)
ServesOrEqual(d, r, cn) ==
    /\ cn[2] <= d.endpoints[r.e + 1].ld
    /\ Fits(d, r.v)

(* the filter of line 80 for request r and connection cn = <<c_id, lc>>. *)
Serves(d, r, cn) ==
    /\ cn[2] < d.endpoints[r.e + 1].ld
    /\ Fits(d, r.v)

EligibleConns(d, r) ==
    SelectSeq(d.endpoints[r.e + 1].conns, LAMBDA cn : Serves(d, r, cn))

(* line 82 for one request. *)
XRow(d, r) ==
    LET f == EligibleConns(d, r)
    IN  [i \in 1..Len(f) |-> <<r.id, f[i][1]>>]

(* Saved without the request count. *)
SavedPerUnit(ld, lc, count) == ld - lc

(* line 81. *)
Saved(ld, lc, count) == (ld - lc) * count

(* lines 81 and 83 for one request. *)
TermRow(d, r) ==
    LET f == EligibleConns(d, r)
    IN  [i \in 1..Len(f) |->
            [coef |-> Saved(d.endpoints[r.e + 1].ld, f[i][2], r.n),
             var |-> <<r.id, f[i][1]>>]]

(* lines 69-83. *)
XKeys(d) == FlatSeq([i \in 1..Len(d.requests) |-> XRow(d, d.requests[i])])

ObjTerms(d) ==
    FlatSeq([i \in 1..Len(d.requests) |-> TermRow(d, d.requests[i])])

(* CapConstr counting videos instead of summing their sizes. *)
CapConstrUnitCoef(d, rv, ykeys, c) ==
    LET f == SelectSeq(rv, LAMBDA v : <<c, v>> \in Range(ykeys))
    IN  [terms |-> [i \in 1..Len(f) |-> [coef |-> 1, var |-> <<c, f[i]>>]],
         rhs |-> d.X]

(* lines 94-97 for one cache c. *)
CapConstr(d, rv, ykeys, c) ==
    LET f == SelectSeq(rv, LAMBDA v : <<c, v>> \in Range(ykeys))
    IN  [terms |-> [i \in 1..Len(f) |->
                      [coef |-> d.video_sizes[f[i] + 1], var |-> <<c, f[i]>>]],
         rhs |-> d.X]

(* lines 91-97. *)
CapConstrs(d, rv, ykeys) ==
    [c \in 1..d.C |-> CapConstr(d, rv, ykeys, c - 1)]

(* lines 101-103: the Y key each X key is linked to. *)
LinkedY(d, xk) == <<xk[2], d.requests[xk[1] + 1].v>>

ConsConstrs(d, xkeys) ==
    [i \in 1..Len(xkeys) |-> [x |-> xkeys[i], y |-> LinkedY(d, xkeys[i])]]

(* y[c_id, v_id] of line 103 raises KeyError at the first X key whose Y key
   is missing; 0 when every lookup succeeds. *)
FirstKeyError(d, xkeys, ykeys) ==
    LET bad == {i \in 1..Len(xkeys) : LinkedY(d, xkeys[i]) \notin Range(ykeys)}
    IN  IF bad = {} THEN 0
        ELSE CHOOSE i \in bad : \A j \in bad : i <= j

(* VarsList keeping only the first X variable of the request. *)
VarsListFirstOnly(d, xkeys, r) ==
    LET cs == d.endpoints[r.e + 1].conns
        f == SelectSeq(cs, LAMBDA cn : <<r.id, cn[1]>> \in Range(xkeys))
    IN  IF f = <<>> THEN <<>> ELSE <<<<r.id, f[1][1]>>>>

(* line 108 for one request. *)
VarsList(d, xkeys, r) ==
    LET cs == d.endpoints[r.e + 1].conns
        f == SelectSeq(cs, LAMBDA cn : <<r.id, cn[1]>> \in Range(xkeys))
    IN  [i \in 1..Len(f) |-> <<r.id, f[i][1]>>]

(* lines 106-110. *)
UniqConstrs(d, xkeys) ==
    LET all == [i \in 1..Len(d.requests) |->
                  [r |-> d.requests[i].id,
                   vars |-> VarsList(d, xkeys, d.requests[i])]]
    IN  SelectSeq(all, LAMBDA u : u.vars # <<>>)

----------------------------------------------------------------------------
(* The external solver, line 116, by its contract: an assignment sets each *)
(* binary variable to 0 or 1 and satisfies every constraint of the model.  *)

Assignments(ykeys, xkeys) ==
    [yv : SUBSET Range(ykeys), xv : SUBSET Range(xkeys)]

CapLhs(con, s) ==
    SumSeq([i \in 1..Len(con.terms) |->
              IF con.terms[i].var \in s.yv THEN con.terms[i].coef ELSE 0])

Feasible(cs, s) ==
    /\ \A i \in 1..Len(cs.cap) : CapLhs(cs.cap[i], s) <= cs.cap[i].rhs
    /\ \A i \in 1..Len(cs.cons) :
          cs.cons[i].x \in s.xv => cs.cons[i].y \in s.yv
    /\ \A i \in 1..Len(cs.uniq) :
          Cardinality({j \in 1..Len(cs.uniq[i].vars) :
                          cs.uniq[i].vars[j] \in s.xv}) <= 1

ObjVal(terms, s) ==
    SumSeq([i \in 1..Len(terms) |->
              IF terms[i].var \in s.xv THEN terms[i].coef ELSE 0])

FeasibleSet(cs, ykeys, xkeys) ==
    {s \in Assignments(ykeys, xkeys) : Feasible(cs, s)}

(* OPTIMAL under MIPGap: the bound is at least the true optimum, so the
   returned objective is within the relative gap of the optimum. *)
WithinGap(best, val) == MIPGapDen * (best - val) <= MIPGapNum * val

OptimalSet(cs, terms, ykeys, xkeys) ==
    LET F == FeasibleSet(cs, ykeys, xkeys)
    IN  {s \in F : \A t \in F : WithinGap(ObjVal(terms, t), ObjVal(terms, s))}

----------------------------------------------------------------------------
(* Export, lines 122-131. *)

(* var.X of a binary variable, doubled: the test var.X > 0.5 is 2*X > 1. *)
TwiceValue(s, k) == IF k \in s.yv THEN 2 ELSE 0

IsPlaced(s, k) == TwiceValue(s, k) > 1

(* AddVideo without the test c not in cache_contents. *)
AddVideoAlwaysNew(cc, c, v) == Append(cc, [c |-> c, vs |-> <<v>>])

(* lines 125-126 on the dict cache_contents. *)
AddVideo(cc, c, v) ==
    IF \E j \in 1..Len(cc) : cc[j].c = c
    THEN [j \in 1..Len(cc) |->
            IF cc[j].c = c THEN [c |-> c, vs |-> Append(cc[j].vs, v)]
            ELSE cc[j]]
    ELSE Append(cc, [c |-> c, vs |-> <<v>>])

(* lines 122-126. *)
RECURSIVE CacheContents(_, _, _)
CacheContents(ykeys, s, cc) ==
    IF ykeys = <<>> THEN cc
    ELSE LET k == Head(ykeys)
         IN  CacheContents(Tail(ykeys), s,
                 IF IsPlaced(s, k) THEN AddVideo(cc, k[1], k[2]) ELSE cc)

(* lines 128-131: each line as its sequence of numbers. *)
OutLines(cc) ==
    <<<<Len(cc)>>>> \o [j \in 1..Len(cc) |-> <<cc[j].c>> \o cc[j].vs]

----------------------------------------------------------------------------
(* The program. *)

Init ==
    /\ pc = "main"
    /\ argc \in {1, 2}
    /\ fileFound \in BOOLEAN
    /\ IF argc = 2 /\ fileFound
       THEN content \in FullStreams \cup TruncatedStreams
       ELSE content = <<>>
    /\ argc = 1 => ~fileFound
    /\ data = NoData
    /\ requested_videos = <<>>
    /\ y = <<>>
    /\ x = <<>>
    /\ obj_terms = <<>>
    /\ constrs = NoConstrs
    /\ mps = FALSE
    /\ status = "LOADED"
    /\ sol = NoSol
    /\ out = NoFile
    /\ printed = <<>>
    /\ exitCode = 0

(* solve_videos returns and the script ends: exit status 0. *)
Return(msgs) ==
    /\ pc' = "done"
    /\ printed' = printed \o msgs
    /\ exitCode' = 0

(* an exception no handler catches: traceback, exit status 1. *)
Crash ==
    /\ pc' = "done"
    /\ printed' = Append(printed, "traceback")
    /\ exitCode' = 1

(* lines 141-143. *)
Usage ==
    /\ pc = "main"
    /\ argc < 2
    /\ pc' = "done"
    /\ printed' = Append(printed, "usage")
    /\ exitCode' = 1
    /\ UNCHANGED <<argc, fileFound, content, data, requested_videos, y, x,
                   obj_terms, constrs, mps, status, sol, out>>

(* lines 145-146. *)
CallSolve ==
    /\ pc = "main"
    /\ argc >= 2
    /\ pc' = "open"
    /\ UNCHANGED <<argc, fileFound, content, data, requested_videos, y, x,
                   obj_terms, constrs, mps, status, sol, out, printed,
                   exitCode>>

(* lines 8-13, FileNotFoundError. *)
OpenNotFound ==
    /\ pc = "open"
    /\ ~fileFound
    /\ Return(<<"introuvable">>)
    /\ UNCHANGED <<argc, fileFound, content, data, requested_videos, y, x,
                   obj_terms, constrs, mps, status, sol, out>>

(* lines 8-10. *)
OpenOk ==
    /\ pc = "open"
    /\ fileFound
    /\ pc' = "parse"
    /\ UNCHANGED <<argc, fileFound, content, data, requested_videos, y, x,
                   obj_terms, constrs, mps, status, sol, out, printed,
                   exitCode>>

(* lines 15-45, StopIteration. *)
ParseError ==
    /\ pc = "parse"
    /\ ~Parse(content).ok
    /\ Return(<<"format">>)
    /\ UNCHANGED <<argc, fileFound, content, data, requested_videos, y, x,
                   obj_terms, constrs, mps, status, sol, out>>

(* lines 15-47. *)
ParseOk ==
    /\ pc = "parse"
    /\ Parse(content).ok
    /\ data' = Parse(content)
    /\ printed' = Append(printed, "donnees")
    /\ pc' = "model"
    /\ UNCHANGED <<argc, fileFound, content, requested_videos, y, x,
                   obj_terms, constrs, mps, status, sol, out, exitCode>>

(* lines 52-55. *)
NewModel ==
    /\ pc = "model"
    /\ pc' = "vars"
    /\ UNCHANGED <<argc, fileFound, content, data, requested_videos, y, x,
                   obj_terms, constrs, mps, status, sol, out, printed,
                   exitCode>>

(* lines 52 and 136-137: the solver library refuses to create the model. *)
NewModelError ==
    /\ pc = "model"
    /\ Return(<<"erreur_gurobi">>)
    /\ UNCHANGED <<argc, fileFound, content, data, requested_videos, y, x,
                   obj_terms, constrs, mps, status, sol, out>>

(* lines 57-86. *)
AddVars ==
    /\ pc = "vars"
    /\ \E rv \in Orderings(RequestedSet(data)) :
          /\ requested_videos' = rv
          /\ y' = YKeys(data, rv)
    /\ x' = XKeys(data)
    /\ obj_terms' = ObjTerms(data)
    /\ pc' = "constrs"
    /\ UNCHANGED <<argc, fileFound, content, data, constrs, mps, status, sol,
                   out, printed, exitCode>>

(* lines 90-114. *)
AddConstrs ==
    /\ pc = "constrs"
    /\ FirstKeyError(data, x, y) = 0
    /\ constrs' = [cap |-> CapConstrs(data, requested_videos, y),
                   cons |-> ConsConstrs(data, x),
                   uniq |-> UniqConstrs(data, x)]
    /\ mps' = TRUE
    /\ pc' = "optimize"
    /\ UNCHANGED <<argc, fileFound, content, data, requested_videos, y, x,
                   obj_terms, status, sol, out, printed, exitCode>>

(* lines 90-103, KeyError at y[c_id, v_id]. *)
AddConstrsKeyError ==
    /\ pc = "constrs"
    /\ FirstKeyError(data, x, y) > 0
    /\ constrs' = [cap |-> CapConstrs(data, requested_videos, y),
                   cons |-> SubSeq(ConsConstrs(data, x), 1,
                                   FirstKeyError(data, x, y) - 1),
                   uniq |-> <<>>]
    /\ Crash
    /\ UNCHANGED <<argc, fileFound, content, data, requested_videos, y, x,
                   obj_terms, mps, status, sol, out>>

(* lines 119-132 for a status of the list and an assignment s. *)
Export(st, s) ==
    /\ status' = st
    /\ sol' = s
    /\ out' = OutLines(CacheContents(y, s, <<>>))
    /\ Return(<<"score", "genere">>)
    /\ UNCHANGED <<argc, fileFound, content, data, requested_videos, y, x,
                   obj_terms, constrs, mps>>

(* lines 116-132, status OPTIMAL. *)
SolveOptimal ==
    /\ pc = "optimize"
    /\ \E s \in OptimalSet(constrs, obj_terms, y, x) : Export("OPTIMAL", s)

(* lines 116-132, status SUBOPTIMAL. *)
SolveSuboptimal ==
    /\ pc = "optimize"
    /\ \E s \in FeasibleSet(constrs, y, x) : Export("SUBOPTIMAL", s)

(* lines 116-132, status TIME_LIMIT with an incumbent. *)
SolveTimeLimit ==
    /\ pc = "optimize"
    /\ \E s \in FeasibleSet(constrs, y, x) : Export("TIME_LIMIT", s)

(* lines 116-120, status TIME_LIMIT with no incumbent: m.objVal raises. The
   library raises GurobiError (caught at line 136) or AttributeError (not
   caught), depending on its version. *)
SolveTimeLimitNoSol ==
    /\ pc = "optimize"
    /\ status' = "TIME_LIMIT"
    /\ \/ Return(<<"erreur_gurobi">>)
       \/ Crash
    /\ UNCHANGED <<argc, fileFound, content, data, requested_videos, y, x,
                   obj_terms, constrs, mps, sol, out>>

(* lines 116-119 and 133-134. *)
SolveInfeasible ==
    /\ pc = "optimize"
    /\ FeasibleSet(constrs, y, x) = {}
    /\ status' \in {"INFEASIBLE", "INF_OR_UNBD"}
    /\ Return(<<"pas_de_solution">>)
    /\ UNCHANGED <<argc, fileFound, content, data, requested_videos, y, x,
                   obj_terms, constrs, mps, sol, out>>

(* lines 116 and 136-137: optimize() raises GurobiError. *)
SolveError ==
    /\ pc = "optimize"
    /\ Return(<<"erreur_gurobi">>)
    /\ UNCHANGED <<argc, fileFound, content, data, requested_videos, y, x,
                   obj_terms, constrs, mps, status, sol, out>>

Next ==
    \/ Usage
    \/ CallSolve
    \/ OpenNotFound
    \/ OpenOk
    \/ ParseError
    \/ ParseOk
    \/ NewModel
    \/ NewModelError
    \/ AddVars
    \/ AddConstrs
    \/ AddConstrsKeyError
    \/ SolveOptimal
    \/ SolveSuboptimal
    \/ SolveTimeLimit
    \/ SolveTimeLimitNoSol
    \/ SolveInfeasible
    \/ SolveError

Spec == Init /\ [][Next]_vars

----------------------------------------------------------------------------
(* Properties. *)

VarsCreated == pc \in {"constrs", "optimize"}

Requests == {data.requests[i] : i \in 1..Len(data.requests)}

SizeOf(v) == data.video_sizes[v + 1]

ConnsOf(r) ==
    {data.endpoints[r.e + 1].conns[j] :
        j \in 1..Len(data.endpoints[r.e + 1].conns)}

NoRepeat(s) == \A i, j \in 1..Len(s) : s[i] = s[j] => i = j

(* C1: after variable creation every X(r, c) that exists has its
   Y(c, requests[r].v): for every key (r, c) of x, (c, requests[r].v) is a
   key of y. *)
C1_EveryXHasItsY ==
    VarsCreated =>
        \A k \in Range(x) :
            \E r \in Requests : r.id = k[1] /\ <<k[2], r.v>> \in Range(y)

(* C2: after variable creation the keys of y are exactly the pairs (c, v)
   with c in [0, C), v the video of at least one request and size(v) <= X,
   each created once. *)
C2_YExactlyEligible ==
    VarsCreated =>
        /\ Range(y) = {<<c, r.v>> : c \in 0..(data.C - 1),
                                    r \in {q \in Requests : SizeOf(q.v) <= data.X}}
        /\ NoRepeat(y)

C2_Witness ==
    /\ VarsCreated
    /\ data.C = 2
    /\ Len(y) = 2
    /\ \E r \in Requests : SizeOf(r.v) > data.X

(* C3: after variable creation the keys of x are exactly the pairs (r, c)
   where c is in the connection map of r's endpoint with a latency strictly
   below the endpoint's fallback latency and size(r.video) <= X; requests
   are keyed by ordinal, so identical requests get separate variables. *)
C3_XExactlyEligible ==
    VarsCreated =>
        /\ \A i \in 1..Len(data.requests) : data.requests[i].id = i - 1
        /\ Range(x) =
             UNION {{<<r.id, cn[1]>> :
                       cn \in {m \in ConnsOf(r) :
                                 /\ m[2] < data.endpoints[r.e + 1].ld
                                 /\ SizeOf(r.v) <= data.X}}
                    : r \in Requests}
        /\ NoRepeat(x)

C3_Witness ==
    /\ VarsCreated
    /\ Len(data.requests) = 2
    /\ data.requests[1].v = data.requests[2].v
    /\ data.requests[1].n = data.requests[2].n
    /\ \E c \in 0..(data.C - 1) : <<0, c>> \in Range(x) /\ <<1, c>> \in Range(x)

CapacityBuilt ==
    /\ Len(constrs.cap) = data.C
    /\ \A c \in 0..(data.C - 1) :
          LET con == constrs.cap[c + 1]
          IN  /\ con.rhs = data.X
              /\ {con.terms[i].var : i \in 1..Len(con.terms)}
                    = {k \in Range(y) : k[1] = c}
              /\ NoRepeat(con.terms)
              /\ \A i \in 1..Len(con.terms) :
                    con.terms[i].coef = SizeOf(con.terms[i].var[2])

(* C4: the capacity constraint of each cache c covers every Y(c, v) that
   exists with coefficient size(v) and bound X, and every cache line of
   videos.out lists videos of total size at most X. *)
C4_CapacityRespected ==
    /\ pc = "optimize" => CapacityBuilt
    /\ out # NoFile =>
          \A j \in 2..Len(out) :
              SumSeq([i \in 1..(Len(out[j]) - 1) |-> SizeOf(out[j][i + 1])])
                 <= data.X

C4_Witness ==
    /\ out # NoFile
    /\ \E j \in 2..Len(out) :
          /\ Len(out[j]) = 3
          /\ SizeOf(out[j][2]) + SizeOf(out[j][3]) = data.X

XKeysOf(r) == {k \in Range(x) : k[1] = r.id}

SingleServiceBuilt ==
    /\ NoRepeat([i \in 1..Len(constrs.uniq) |-> constrs.uniq[i].r])
    /\ \A r \in Requests :
          IF XKeysOf(r) = {}
          THEN \A i \in 1..Len(constrs.uniq) : constrs.uniq[i].r # r.id
          ELSE \E i \in 1..Len(constrs.uniq) :
                  /\ constrs.uniq[i].r = r.id
                  /\ Range(constrs.uniq[i].vars) = XKeysOf(r)

(* C5: one single-service constraint per request with at least one X
   variable, summing all its X variables, none for a request without any;
   in every returned assignment a request is served by at most one cache. *)
C5_SingleService ==
    /\ pc = "optimize" => SingleServiceBuilt
    /\ sol # NoSol =>
          \A r \in Requests : Cardinality(XKeysOf(r) \cap sol.xv) <= 1

C5_Witness ==
    /\ sol # NoSol
    /\ \E r \in Requests :
          /\ Cardinality(XKeysOf(r)) = 2
          /\ Cardinality(XKeysOf(r) \cap sol.xv) = 1

(* C6: a truncated token stream ends in the format error and nothing else:
   no model, no solver call, neither videos.mps nor videos.out. *)
C6_TruncatedStops ==
    content \in TruncatedStreams /\ fileFound =>
        /\ pc \in {"main", "open", "parse", "done"}
        /\ pc = "done" => printed = <<"format">>
        /\ data = NoData /\ y = <<>> /\ x = <<>> /\ constrs = NoConstrs
        /\ status = "LOADED" /\ sol = NoSol
        /\ ~mps /\ out = NoFile

C6_Witness ==
    /\ pc = "done"
    /\ printed = <<"format">>
    /\ Len(content) > 8
    /\ content[3] = 0
    /\ content[2] = 1

(* C7: the run exits non-zero with a message when the path argument is
   missing or the file cannot be parsed; every other run writes videos.out
   and exits zero. *)
C7_ExitStatus ==
    pc = "done" =>
        IF argc < 2 \/ ~fileFound \/ content \in TruncatedStreams
        THEN exitCode # 0 /\ printed # <<>>
        ELSE exitCode = 0 /\ out # NoFile

SolverCalled == pc = "done" /\ mps

NoUsableSolution ==
    /\ SolverCalled
    /\ sol = NoSol

(* C8: a solve that ends without a usable solution or with a solver error
   does not crash: the failure is reported, videos.out is not written and
   the run ends normally; videos.out is written only after a status of
   OPTIMAL, SUBOPTIMAL or TIME_LIMIT. *)
C8_NoSolutionHandled ==
    /\ NoUsableSolution =>
          /\ exitCode = 0
          /\ \A i \in 1..Len(printed) : printed[i] # "traceback"
          /\ \E i \in 1..Len(printed) :
                printed[i] \in {"pas_de_solution", "erreur_gurobi"}
          /\ out = NoFile
    /\ out # NoFile =>
          SolverCalled /\ status \in {"OPTIMAL", "SUBOPTIMAL", "TIME_LIMIT"}

PlacedIn(c) == SelectSeq(y, LAMBDA k : k[1] = c /\ k \in sol.yv)

(* C9: the first line of videos.out is the number of caches with at least
   one Y(c, v) above 0.5; then one line per such cache with its index and
   exactly its placed videos in the order of y; no cache with nothing
   placed has a line and no cache has two. *)
C9_OutputFormat ==
    out # NoFile =>
        LET holding == {k[1] : k \in Range(y) \cap sol.yv}
        IN  /\ out[1] = <<Cardinality(holding)>>
            /\ Len(out) = 1 + Cardinality(holding)
            /\ {out[j][1] : j \in 2..Len(out)} = holding
            /\ \A j \in 2..Len(out) :
                  LET p == PlacedIn(out[j][1])
                  IN  out[j] = <<out[j][1]>> \o [i \in 1..Len(p) |-> p[i][2]]

C9_Witness ==
    /\ out # NoFile
    /\ Len(out) = 2
    /\ Len(out[2]) = 3
    /\ data.C = 2

ConnLatency(r, c) == (CHOOSE cn \in ConnsOf(r) : cn[1] = c)[2]

(* C10: the objective has exactly one term per X(r, c), with coefficient
   (fallback_latency - cache_latency) * count, positive when count >= 1,
   and nothing for a request without eligible cache; on the documented
   example the coefficient is 240 and an optimal solve writes cache 0
   holding video 0. *)
C10_Objective ==
    /\ VarsCreated =>
          /\ Len(obj_terms) = Len(x)
          /\ \A i \in 1..Len(x) :
                LET r == CHOOSE q \in Requests : q.id = x[i][1]
                IN  /\ obj_terms[i].var = x[i]
                    /\ obj_terms[i].coef =
                          (data.endpoints[r.e + 1].ld - ConnLatency(r, x[i][2]))
                             * r.n
                    /\ r.n >= 1 => obj_terms[i].coef > 0
    /\ VarsCreated /\ content = Tokens(ExampleInstance) =>
          /\ y = <<<<0, 0>>>> /\ x = <<<<0, 0>>>>
          /\ obj_terms = <<[coef |-> 240, var |-> <<0, 0>>]>>
    /\ content = Tokens(ExampleInstance) /\ status = "OPTIMAL" =>
          /\ ObjVal(obj_terms, sol) = 240
          /\ out = <<<<1>>, <<0, 0>>>>

C10_Witness ==
    /\ content = Tokens(ExampleInstance)
    /\ status = "OPTIMAL"
    /\ out = <<<<1>>, <<0, 0>>>>

====
